---- MODULE Spec2Model ----
(***************************************************************************)
(* Model of dashboard.py: the AQI derivation (calculate_aqi_pm25,          *)
(* calculate_aqi_co), the per-reading combination and classification, the  *)
(* KPI classification of the average AQI and the cell colouring.           *)
(*                                                                         *)
(* Concentrations are decimal numbers with two decimals, written here as   *)
(* integers in hundredths (1205 is 12.05).  The interpolation is computed  *)
(* in IEEE-754 binary64 as Python does: every arithmetic step rounds to a  *)
(* 53-bit significand, ties to even.  Significands are naturals of up to   *)
(* 106 bits, kept as little-endian sequences of 15-bit limbs.              *)
(***************************************************************************)
EXTENDS Integers, Sequences, FiniteSets, TLC

(***************************************************************************)
(* Naturals of arbitrary size: little-endian limbs, no leading zero limb;  *)
(* <<>> is zero.                                                           *)
(***************************************************************************)
LimbBits == 15
Base == 2^LimbBits

Min(a, b) == IF a < b THEN a ELSE b

Max(a, b) == IF a > b THEN a ELSE b

\* the largest element of a nonempty set of integers
MaxOf(S) == CHOOSE i \in S : \A j \in S : j <= i

\* drops the leading zero limbs
BNorm(a) ==
    LET nz == {i \in 1..Len(a) : a[i] # 0}
    IN  IF nz = {} THEN <<>> ELSE SubSeq(a, 1, MaxOf(nz))

\* 0 <= n < 2^31
BFromInt(n) == BNorm(<< n % Base, (n \div Base) % Base, n \div (Base * Base) >>)

\* a < 2^31
BToInt(a) ==
    IF a = <<>> THEN 0
    ELSE IF Len(a) = 1 THEN a[1]
    ELSE IF Len(a) = 2 THEN a[1] + Base * a[2]
    ELSE a[1] + Base * a[2] + Base * Base * a[3]

BLimb(a, i) == IF i <= Len(a) THEN a[i] ELSE 0

\* a + b.  A limb position produces a carry when its sum reaches Base and
\* passes one on when its sum is Base - 1.
BAdd(a, b) ==
    IF a = <<>> THEN b
    ELSE IF b = <<>> THEN a
    ELSE LET s(i)     == BLimb(a, i) + BLimb(b, i)
             carry(i) == IF \E j \in 1..(i - 1) :
                                /\ s(j) >= Base
                                /\ \A k \in (j + 1)..(i - 1) : s(k) = Base - 1
                         THEN 1 ELSE 0
         IN  BNorm([i \in 1..(Max(Len(a), Len(b)) + 1) |-> (s(i) + carry(i)) % Base])

\* a - b for a >= b.  A limb position borrows when its difference is
\* negative and passes a borrow on when its difference is 0.
BSub(a, b) ==
    IF b = <<>> THEN a
    ELSE IF a = b THEN <<>>
    ELSE LET d(i)      == a[i] - BLimb(b, i)
             borrow(i) == IF \E j \in 1..(i - 1) :
                                 /\ d(j) < 0
                                 /\ \A k \in (j + 1)..(i - 1) : d(k) = 0
                          THEN 1 ELSE 0
         IN  BNorm([i \in 1..Len(a) |-> (d(i) - borrow(i)) % Base])

\* -1, 0, 1 as a < b, a = b, a > b
BCmp(a, b) ==
    IF Len(a) < Len(b) THEN -1
    ELSE IF Len(a) > Len(b) THEN 1
    ELSE IF a = b THEN 0
    ELSE LET i == MaxOf({j \in 1..Len(a) : a[j] # b[j]})
         IN  IF a[i] < b[i] THEN -1 ELSE 1

\* a * k for 0 <= k < Base: the low halves of the limb products plus their
\* high halves one limb up
BMulSmall(a, k) ==
    IF a = <<>> \/ k = 0 THEN <<>>
    ELSE IF k = 1 THEN a
    ELSE BAdd(BNorm([i \in 1..Len(a) |-> (a[i] * k) % Base]),
              BNorm([i \in 1..(Len(a) + 1) |->
                        IF i = 1 THEN 0 ELSE (a[i - 1] * k) \div Base]))

\* a * Base^n
BShiftLimbs(a, n) == IF a = <<>> \/ n = 0 THEN a ELSE [i \in 1..n |-> 0] \o a

RECURSIVE BMulFrom(_, _, _, _)
BMulFrom(a, b, i, acc) ==
    IF i > Len(b) THEN acc
    ELSE BMulFrom(a, b, i + 1, BAdd(acc, BShiftLimbs(BMulSmall(a, b[i]), i - 1)))

BMul(a, b) ==
    IF a = <<>> \/ b = <<>> THEN <<>>
    ELSE BMulFrom(a, b, 2, BMulSmall(a, b[1]))

\* a * 2^s
BShl(a, s) ==
    IF a = <<>> \/ s = 0 THEN a
    ELSE LET t == s % LimbBits
         IN  BShiftLimbs(BNorm([i \in 1..(Len(a) + 1) |->
                                   ((BLimb(a, i) * (2^t)) % Base)
                                   + (IF i = 1 THEN 0 ELSE a[i - 1] \div (2^(LimbBits - t)))]),
                         s \div LimbBits)

\* floor(a / 2^s)
BShr(a, s) ==
    IF a = <<>> \/ s = 0 THEN a
    ELSE IF s \div LimbBits >= Len(a) THEN <<>>
    ELSE LET t   == s % LimbBits
             top == SubSeq(a, s \div LimbBits + 1, Len(a))
         IN  BNorm([i \in 1..Len(top) |->
                       (top[i] \div (2^t)) + (BLimb(top, i + 1) % (2^t)) * (2^(LimbBits - t))])

\* number of bits of 0 <= n < Base
IntBitLen(n) == Cardinality({k \in 0..(LimbBits - 1) : 2^k <= n})

BBitLen(a) == IF a = <<>> THEN 0 ELSE LimbBits * (Len(a) - 1) + IntBitLen(a[Len(a)])

BOdd(a) == a # <<>> /\ a[1] % 2 = 1

(***************************************************************************)
(* binary64 values >= 0: [m, e] is m * 2^e with m <= 2^53 (m = 2^53 is the *)
(* same value as 2^52 with e + 1); zero is m = <<>>.                       *)
(***************************************************************************)
MantBits == 53

FZero == [m |-> <<>>, e |-> 0]

IntToF(n) == [m |-> BFromInt(n), e |-> 0]

\* whether the d bits dropped from A, followed by a nonzero tail if sticky,
\* round the kept part q up: nearest, ties to even
RoundsUp(A, q, d, sticky) ==
    LET c == BCmp(BSub(A, BShl(q, d)), BShl(<< 1 >>, d - 1))
    IN  c > 0 \/ (c = 0 /\ (sticky \/ BOdd(q)))

\* the binary64 nearest to (A + t) * 2^e, ties to even, where 0 < t < 1 if
\* sticky and t = 0 otherwise
RoundToF(A, e, sticky) ==
    IF A = <<>> THEN FZero
    ELSE IF BBitLen(A) <= MantBits THEN [m |-> A, e |-> e]
    ELSE LET d == BBitLen(A) - MantBits
             q == BShr(A, d)
         IN  [m |-> IF RoundsUp(A, q, d, sticky) THEN BAdd(q, << 1 >>) ELSE q,
              e |-> e + d]

FMul(x, y) ==
    IF x.m = <<>> \/ y.m = <<>> THEN FZero
    ELSE RoundToF(BMul(x.m, y.m), x.e + y.e, FALSE)

FAdd(x, y) ==
    IF x.m = <<>> THEN y
    ELSE IF y.m = <<>> THEN x
    ELSE RoundToF(BAdd(BShl(x.m, x.e - Min(x.e, y.e)),
                       BShl(y.m, y.e - Min(x.e, y.e))), Min(x.e, y.e), FALSE)

\* x - y for x >= y
FSub(x, y) ==
    IF y.m = <<>> THEN x
    ELSE IF x = y THEN FZero
    ELSE RoundToF(BSub(BShl(x.m, x.e - Min(x.e, y.e)),
                       BShl(y.m, y.e - Min(x.e, y.e))), Min(x.e, y.e), FALSE)

\* quotient limbs computed by FDiv
QuotLimbs == 4

\* one step of the long division by b in base Base, for 0 < s.r < b and b's
\* top limb >= Base / 2: appends the next limb of the quotient to s.q.
\* The estimate from the top limbs is at most 2 too large (Knuth 4.3.1 D).
DivDigit(s, b) ==
    LET R    == << 0 >> \o s.r
        qhat == Min((BLimb(R, Len(b) + 1) * Base + BLimb(R, Len(b))) \div b[Len(b)],
                    Base - 1)
        qd   == IF BCmp(BMulSmall(b, qhat), R) <= 0 THEN qhat
                ELSE IF BCmp(BMulSmall(b, qhat - 1), R) <= 0 THEN qhat - 1
                ELSE qhat - 2
    IN  [q |-> << qd >> \o s.q, r |-> BSub(R, BMulSmall(b, qd))]

\* n more limbs of the quotient: s = [q, r] is the quotient so far and the
\* remainder left; once the remainder is 0 the limbs left are 0
RECURSIVE DivLimbs(_, _, _)
DivLimbs(s, b, n) ==
    IF n = 0 THEN s
    ELSE IF s.r = <<>> THEN [q |-> [i \in 1..n |-> 0] \o s.q, r |-> <<>>]
    ELSE DivLimbs(DivDigit(s, b), b, n - 1)

\* x / y for x, y > 0, with nb a multiple of LimbBits larger than the bit
\* lengths of both significands: y.m is scaled to nb bits, x.m to the
\* largest multiple below it
FDivScaled(x, y, nb) ==
    LET B  == BShl(y.m, nb - BBitLen(y.m))
        w  == IF BCmp(BShl(x.m, nb - BBitLen(x.m)), B) >= 0
              THEN nb - BBitLen(x.m) - 1 ELSE nb - BBitLen(x.m)
        qr == DivLimbs([q |-> <<>>, r |-> BShl(x.m, w)], B, QuotLimbs)
    IN  RoundToF(BNorm(qr.q),
                 x.e - y.e - w + (nb - BBitLen(y.m)) - QuotLimbs * LimbBits,
                 qr.r # <<>>)

\* x / y for y > 0
FDiv(x, y) ==
    IF x.m = <<>> THEN FZero
    ELSE IF BBitLen(x.m) > BBitLen(y.m)
    THEN FDivScaled(x, y, LimbBits * ((BBitLen(x.m) + LimbBits) \div LimbBits))
    ELSE FDivScaled(x, y, LimbBits * ((BBitLen(y.m) + LimbBits) \div LimbBits))

\* Python's round(x) of a float: nearest integer, ties to even
\* int(): the fraction is dropped
PyTrunc(x) ==
    IF x.m = <<>> THEN 0
    ELSE IF x.e >= 0 THEN BToInt(BShl(x.m, x.e))
    ELSE BToInt(BShr(x.m, 0 - x.e))

PyRound(x) ==
    IF x.m = <<>> THEN 0
    ELSE IF x.e >= 0 THEN BToInt(BShl(x.m, x.e))
    ELSE LET q == BShr(x.m, 0 - x.e)
         IN  IF RoundsUp(x.m, q, 0 - x.e, FALSE) THEN BToInt(q) + 1 ELSE BToInt(q)

Hundred == 10 * 10

\* the float a decimal literal or CSV field with two decimals denotes;
\* n is in hundredths, n >= 0
ParseDec(n) == FDiv(IntToF(n), IntToF(Hundred))

(***************************************************************************)
(* A float column value is <<>> (NaN / None) or << v >>.                   *)
(***************************************************************************)
NaN == <<>>
None == <<>>

Seg(lo, hi, ilo, ihi, cat, col) ==
    [bp_low |-> lo, bp_high |-> hi, aqi_low |-> ilo, aqi_high |-> ihi,
     category |-> cat, color |-> col]

\* concentrations in hundredths of ug/m3
\* the table with the second entry's indices starting at 50
breakpoints_pm25_overlap ==
    << Seg(0, 1200, 0, 50, "Bueno", "#00E400"),
       Seg(1210, 3540, 50, 100, "Moderado", "#FFFF00"),
       Seg(3550, 5540, 101, 150, "Insalubre para Grupos Sensibles", "#FF7E00"),
       Seg(5550, 15040, 151, 200, "Insalubre", "#FF0000"),
       Seg(15050, 25040, 201, 300, "Muy Insalubre", "#99004C"),
       Seg(25050, 50040, 301, 500, "Peligroso", "#7E0023") >>

breakpoints_pm25 ==
    << Seg(0,     1200,  0,   50,  "Bueno", "#00E400"),
       Seg(1210,  3540,  51,  100, "Moderado", "#FFFF00"),
       Seg(3550,  5540,  101, 150, "Insalubre para Grupos Sensibles", "#FF7E00"),
       Seg(5550,  15040, 151, 200, "Insalubre", "#FF0000"),
       Seg(15050, 25040, 201, 300, "Muy Insalubre", "#99004C"),
       Seg(25050, 50040, 301, 500, "Peligroso", "#7E0023") >>

\* concentrations in hundredths of ppm
breakpoints_co ==
    << Seg(0,    440,  0,   50,  "Bueno", "#00E400"),
       Seg(450,  940,  51,  100, "Moderado", "#FFFF00"),
       Seg(950,  1240, 101, 150, "Insalubre para Grupos Sensibles", "#FF7E00"),
       Seg(1250, 1540, 151, 200, "Insalubre", "#FF0000"),
       Seg(1550, 3040, 201, 300, "Muy Insalubre", "#99004C"),
       Seg(3050, 5040, 301, 500, "Peligroso", "#7E0023") >>

\* a concentration outside the table taken as the worst index
OutOfRangeClamped == [aqi |-> << 500 >>, category |-> "Peligroso", color |-> "#7E0023"]

OutOfRange == [aqi |-> None, category |-> "Fuera de rango", color |-> "#000000"]

\* the interpolation taken from the upper limit downwards
InterpolateDown(bp, c) ==
    LET slope == FDiv(IntToF(bp.aqi_high - bp.aqi_low),
                      FSub(ParseDec(bp.bp_high), ParseDec(bp.bp_low)))
        aqi   == FAdd(FMul(slope, FSub(ParseDec(bp.bp_high), ParseDec(c))),
                      IntToF(bp.aqi_low))
    IN  PyRound(aqi)

\* round(((aqi_high - aqi_low) / (bp_high - bp_low)) * (c - bp_low) + aqi_low)
Interpolate(bp, c) ==
    LET slope == FDiv(IntToF(bp.aqi_high - bp.aqi_low),
                      FSub(ParseDec(bp.bp_high), ParseDec(bp.bp_low)))
        aqi   == FAdd(FMul(slope, FSub(ParseDec(c), ParseDec(bp.bp_low))),
                      IntToF(bp.aqi_low))
    IN  PyRound(aqi)

\* the loop with bp_low < x in place of bp_low <= x
ScanBreakpointsStrict(breakpoints, x) ==
    LET hit == {i \in 1..Len(breakpoints) :
                   /\ x # NaN
                   /\ breakpoints[i].bp_low < x[1]
                   /\ x[1] <= breakpoints[i].bp_high}
        bp  == breakpoints[CHOOSE i \in hit : \A j \in hit : i <= j]
    IN  IF hit = {} THEN OutOfRange
        ELSE [aqi |-> << Interpolate(bp, x[1]) >>,
              category |-> bp.category, color |-> bp.color]

\* the loop with a missing value read as 0
ScanBreakpointsFillNa(breakpoints, x) ==
    LET v   == IF x = NaN THEN 0 ELSE x[1]
        hit == {i \in 1..Len(breakpoints) :
                   /\ breakpoints[i].bp_low <= v
                   /\ v <= breakpoints[i].bp_high}
        bp  == breakpoints[CHOOSE i \in hit : \A j \in hit : i <= j]
    IN  IF hit = {} THEN OutOfRange
        ELSE [aqi |-> << Interpolate(bp, v) >>,
              category |-> bp.category, color |-> bp.color]

\* the for loop over the table: the first entry whose range holds x wins;
\* x is <<>> or << hundredths >>.  Every comparison with NaN is false.
ScanBreakpoints(breakpoints, x) ==
    LET hit == {i \in 1..Len(breakpoints) :
                   /\ x # NaN
                   /\ breakpoints[i].bp_low <= x[1]
                   /\ x[1] <= breakpoints[i].bp_high}
        bp  == breakpoints[CHOOSE i \in hit : \A j \in hit : i <= j]
    IN  IF hit = {} THEN OutOfRange
        ELSE [aqi |-> << Interpolate(bp, x[1]) >>,
              category |-> bp.category, color |-> bp.color]

calculate_aqi_pm25(pm25) == ScanBreakpoints(breakpoints_pm25, pm25)

calculate_aqi_co(co) == ScanBreakpoints(breakpoints_co, co)

(***************************************************************************)
(* The per-reading combination and the classifications.                    *)
(***************************************************************************)

\* df[['aqi_pm25', 'aqi_co']].max(axis=1) for one row: NaN is skipped, the
\* result is NaN when both are NaN
\* max(axis=1, skipna=False): NaN if either value is NaN
RowMaxNoSkip(a, b) ==
    IF a = NaN \/ b = NaN THEN NaN
    ELSE IF a[1] >= b[1] THEN a ELSE b

RowMax(a, b) ==
    IF a = NaN THEN b
    ELSE IF b = NaN THEN a
    ELSE IF a[1] >= b[1] THEN a ELSE b

categories ==
    << "Bueno", "Moderado", "Insalubre para Grupos Sensibles", "Insalubre",
       "Muy Insalubre", "Peligroso" >>

colors == << "#00E400", "#FFFF00", "#FF7E00", "#FF0000", "#99004C", "#7E0023" >>

\* the upper limits of the conditions list, in order
thresholds == << 50, 100, 150, 200, 300, 500 >>

\* np.select with the conditions aqi < limit
SelectStrict(aqi, choices, default) ==
    LET hold == {i \in 1..Len(thresholds) : aqi # NaN /\ aqi[1] < thresholds[i]}
    IN  IF hold = {} THEN default
        ELSE choices[CHOOSE i \in hold : \A j \in hold : i <= j]

\* np.select(conditions, choices, default) for one row: the choice of the
\* first condition aqi <= limit that holds; a comparison with NaN is false
Select(aqi, choices, default) ==
    LET hold == {i \in 1..Len(thresholds) : aqi # NaN /\ aqi[1] <= thresholds[i]}
    IN  IF hold = {} THEN default
        ELSE choices[CHOOSE i \in hold : \A j \in hold : i <= j]

\* an average is NaN (<<>>) or << sum, count >> with count > 0, the mean of
\* count integers; sum / count <= t exactly when sum <= t * count
MeanSkipNa(col) ==
    LET def == {i \in 1..Len(col) : col[i] # NaN}
        RECURSIVE SumTo(_)
        SumTo(i) == IF i = 0 THEN 0
                    ELSE SumTo(i - 1) + (IF i \in def THEN col[i][1] ELSE 0)
    IN  IF def = {} THEN NaN ELSE << SumTo(Len(col)), Cardinality(def) >>

MaxSkipNa(col) ==
    LET def == {i \in 1..Len(col) : col[i] # NaN}
    IN  IF def = {} THEN NaN
        ELSE col[CHOOSE i \in def : \A j \in def : col[j][1] <= col[i][1]]

\* avg <= t for an average; false for NaN
AvgLeq(avg, t) == avg # NaN /\ avg[1] <= t * avg[2]

\* the if / elif chain on avg_aqi: [color, category]
KpiClass(avg) ==
    IF AvgLeq(avg, 50) THEN [color |-> "#00E400", category |-> "Bueno"]
    ELSE IF AvgLeq(avg, 100) THEN [color |-> "#FFFF00", category |-> "Moderado"]
    ELSE IF AvgLeq(avg, 150)
    THEN [color |-> "#FF7E00", category |-> "Insalubre para Grupos Sensibles"]
    ELSE IF AvgLeq(avg, 200) THEN [color |-> "#FF0000", category |-> "Insalubre"]
    ELSE IF AvgLeq(avg, 300) THEN [color |-> "#99004C", category |-> "Muy Insalubre"]
    ELSE [color |-> "#7E0023", category |-> "Peligroso"]

\* val <= t for a cell of the AQI column; false for NaN
CellLeq(val, t) == val # NaN /\ val[1] <= t

color_aqi(val) ==
    IF CellLeq(val, 50) THEN "background-color: #00E400"
    ELSE IF CellLeq(val, 100) THEN "background-color: #FFFF00"
    ELSE IF CellLeq(val, 150) THEN "background-color: #FF7E00"
    ELSE IF CellLeq(val, 200) THEN "background-color: #FF0000"
    ELSE IF CellLeq(val, 300) THEN "background-color: #99004C"
    ELSE "background-color: #7E0023"

(***************************************************************************)
(* The readings AIRDATA.CSV may hold, within the bounds.                   *)
(***************************************************************************)
MaxRows == 2
MaxDay == 2
NegMargin == 100
FineTopPM == 160
FineTopCO == 100
Window == 5
GridStepPM == 555
GridStepCO == 22
FarConc == 1000000

\* the bp_low and bp_high of a table
Edges(breakpoints) ==
    {breakpoints[i].bp_low : i \in 1..Len(breakpoints)}
        \cup {breakpoints[i].bp_high : i \in 1..Len(breakpoints)}

\* every hundredth from -NegMargin to fineTop and within Window of an edge,
\* a grid up to past the last edge, and a far value
Concentrations(breakpoints, fineTop, step) ==
    LET last == breakpoints[Len(breakpoints)].bp_high
    IN  ((0 - NegMargin)..fineTop)
            \cup UNION {(c - Window)..(c + Window) : c \in Edges(breakpoints)}
            \cup {c \in 0..(last + step) : c % step = 0}
            \cup {FarConc}

PM25Inputs == Concentrations(breakpoints_pm25, FineTopPM, GridStepPM)

COInputs == Concentrations(breakpoints_co, FineTopCO, GridStepCO)

Days == 1..MaxDay

Row(d, p, c) == [date |-> d, pm25 |-> p, co |-> c]

\* the concentrations of S that a table covers
Covered(breakpoints, S) ==
    {c \in S : \E i \in 1..Len(breakpoints) :
                   breakpoints[i].bp_low <= c /\ c <= breakpoints[i].bp_high}

\* the next concentration of S that the table covers after a covered c; c
\* itself if the table does not cover c or covers nothing of S above it
Succ(breakpoints, S, c) ==
    LET above == {d \in Covered(breakpoints, S) : d > c}
    IN  IF c \notin Covered(breakpoints, S) \/ above = {} THEN c
        ELSE CHOOSE d \in above : \A e \in above : d <= e

\* two readings of one pollutant: a concentration of the fine set and its
\* successor
FineFrames ==
    {<< Row(1, << c >>, NaN), Row(1, << Succ(breakpoints_pm25, PM25Inputs, c) >>, NaN) >> :
         c \in PM25Inputs}
        \cup {<< Row(1, NaN, << c >>), Row(1, NaN, << Succ(breakpoints_co, COInputs, c) >>) >> :
                  c \in COInputs}

CoarseRows ==
    {Row(d, p, c) : d \in Days,
                    p \in {NaN, << 20000 >>, << 60000 >>},
                    c \in {NaN, << 500 >>}}

\* up to MaxRows readings in the order of their dates
CoarseFrames ==
    UNION {{f \in [1..n -> CoarseRows] :
               \A i \in 1..(n - 1) : f[i].date <= f[i + 1].date} : n \in 1..MaxRows}

\* <<>> is a file with the header line only
InputFrames == {<<>>} \cup FineFrames \cup CoarseFrames

(***************************************************************************)
(* The script.  df is the data frame as a record of columns, each a        *)
(* sequence with one entry per reading; a column exists once the script    *)
(* has assigned it.  filtered_df is the sequence of the row numbers kept.  *)
(***************************************************************************)
VARIABLES pc, df, filtered_df, avg_aqi, max_aqi, aqi_color, aqi_category,
          styled_recent

vars == << pc, df, filtered_df, avg_aqi, max_aqi, aqi_color, aqi_category,
           styled_recent >>

Rows == 1..Len(df.pm25)

Init ==
    /\ pc = "start"
    /\ df = <<>>
    /\ filtered_df = <<>>
    /\ avg_aqi = NaN
    /\ max_aqi = NaN
    /\ aqi_color = ""
    /\ aqi_category = ""
    /\ styled_recent = <<>>

load_data ==
    /\ pc = "start"
    /\ \E frame \in InputFrames :
           df' = [date |-> [i \in 1..Len(frame) |-> frame[i].date],
                  pm25 |-> [i \in 1..Len(frame) |-> frame[i].pm25],
                  co   |-> [i \in 1..Len(frame) |-> frame[i].co]]
    /\ pc' = "loaded"
    /\ UNCHANGED << filtered_df, avg_aqi, max_aqi, aqi_color, aqi_category,
                    styled_recent >>

\* zip(*...) of no rows has nothing to unpack: the except branch reports it
AddAqiPm25Empty ==
    /\ pc = "loaded"
    /\ Len(df.pm25) = 0
    /\ pc' = "error"
    /\ UNCHANGED << df, filtered_df, avg_aqi, max_aqi, aqi_color, aqi_category,
                    styled_recent >>

AddAqiPm25 ==
    /\ pc = "loaded"
    /\ Len(df.pm25) > 0
    /\ LET res == [i \in Rows |-> calculate_aqi_pm25(df.pm25[i])]
       IN  df' = df @@ [aqi_pm25      |-> [i \in Rows |-> res[i].aqi],
                        category_pm25 |-> [i \in Rows |-> res[i].category],
                        color_pm25    |-> [i \in Rows |-> res[i].color]]
    /\ pc' = "aqi_pm25"
    /\ UNCHANGED << filtered_df, avg_aqi, max_aqi, aqi_color, aqi_category,
                    styled_recent >>

AddAqiCo ==
    /\ pc = "aqi_pm25"
    /\ LET res == [i \in Rows |-> calculate_aqi_co(df.co[i])]
       IN  df' = df @@ [aqi_co      |-> [i \in Rows |-> res[i].aqi],
                        category_co |-> [i \in Rows |-> res[i].category],
                        color_co    |-> [i \in Rows |-> res[i].color]]
    /\ pc' = "aqi_co"
    /\ UNCHANGED << filtered_df, avg_aqi, max_aqi, aqi_color, aqi_category,
                    styled_recent >>

AddAqi ==
    /\ pc = "aqi_co"
    /\ df' = df @@ [aqi |-> [i \in Rows |-> RowMax(df.aqi_pm25[i], df.aqi_co[i])]]
    /\ pc' = "aqi"
    /\ UNCHANGED << filtered_df, avg_aqi, max_aqi, aqi_color, aqi_category,
                    styled_recent >>

AddCategory ==
    /\ pc = "aqi"
    /\ df' = df @@ [category |-> [i \in Rows |->
                                     Select(df.aqi[i], categories, "Fuera de rango")],
                    color    |-> [i \in Rows |->
                                     Select(df.aqi[i], colors, "#000000")]]
    /\ pc' = "category"
    /\ UNCHANGED << filtered_df, avg_aqi, max_aqi, aqi_color, aqi_category,
                    styled_recent >>

\* the rows of s that satisfy Keep, in order
RECURSIVE SelectRows(_, _)
SelectRows(n, keep) ==
    IF n = 0 THEN <<>>
    ELSE IF n \in keep THEN Append(SelectRows(n - 1, keep), n)
    ELSE SelectRows(n - 1, keep)

\* the date_input widget: one or two dates between the first and the last
\* date of the data
DateRanges ==
    LET dates == {df.date[i] : i \in Rows}
        lo    == CHOOSE d \in dates : \A e \in dates : d <= e
        hi    == CHOOSE d \in dates : \A e \in dates : e <= d
    IN  {<< a, b >> : a \in lo..hi, b \in lo..hi} \cup {<< a >> : a \in lo..hi}

FilterDates ==
    /\ pc = "category"
    /\ \E date_range \in DateRanges :
           IF Len(date_range) = 2
           THEN /\ date_range[1] <= date_range[2]
                /\ filtered_df' =
                       SelectRows(Len(df.pm25),
                                  {i \in Rows : /\ df.date[i] >= date_range[1]
                                                /\ df.date[i] <= date_range[2]})
           ELSE filtered_df' = SelectRows(Len(df.pm25), Rows)
    /\ pc' = "filtered"
    /\ UNCHANGED << df, avg_aqi, max_aqi, aqi_color, aqi_category, styled_recent >>

Kpi ==
    /\ pc = "filtered"
    /\ LET col == [k \in 1..Len(filtered_df) |-> df.aqi[filtered_df[k]]]
       IN  /\ avg_aqi' = MeanSkipNa(col)
           /\ max_aqi' = MaxSkipNa(col)
           /\ aqi_color' = KpiClass(MeanSkipNa(col)).color
           /\ aqi_category' = KpiClass(MeanSkipNa(col)).category
    /\ pc' = "kpi"
    /\ UNCHANGED << df, filtered_df, styled_recent >>

\* rows shown in the table of recent data
RecentRows == 10

\* the last RecentRows rows kept, latest first, with the style of the AQI cell
StyleRecent ==
    /\ pc = "kpi"
    /\ LET n == Len(filtered_df)
           m == IF n < RecentRows THEN n ELSE RecentRows
       IN  styled_recent' =
               [k \in 1..m |-> [row   |-> filtered_df[n + 1 - k],
                                style |-> color_aqi(df.aqi[filtered_df[n + 1 - k]])]]
    /\ pc' = "done"
    /\ UNCHANGED << df, filtered_df, avg_aqi, max_aqi, aqi_color, aqi_category >>

Next ==
    \/ load_data
    \/ AddAqiPm25Empty
    \/ AddAqiPm25
    \/ AddAqiCo
    \/ AddAqi
    \/ AddCategory
    \/ FilterDates
    \/ Kpi
    \/ StyleRecent

Spec == Init /\ [][Next]_vars

(***************************************************************************)
(* Properties.                                                             *)
(***************************************************************************)
HasCol(c) == c \in DOMAIN df

Abs(n) == IF n < 0 THEN 0 - n ELSE n

\* the entry of a table whose range holds c (hundredths); 0 if none
SegmentOf(breakpoints, c) ==
    LET hit == {i \in 1..Len(breakpoints) :
                   breakpoints[i].bp_low <= c /\ c <= breakpoints[i].bp_high}
    IN  IF hit = {} THEN 0 ELSE CHOOSE i \in hit : \A j \in hit : i <= j

\* the interpolated value of c in entry bp is aqi_low + Num / Den, exactly
Num(bp, c) == (bp.aqi_high - bp.aqi_low) * (c - bp.bp_low)

Den(bp) == bp.bp_high - bp.bp_low

\* the interpolated value rounded to the nearest integer, halves up
HalfUp(bp, c) == bp.aqi_low + (2 * Num(bp, c) + Den(bp)) \div (2 * Den(bp))

\* idx is an integer nearest to the interpolated value: at most 1/2 away
Nearest(idx, bp, c) == 2 * Abs((idx - bp.aqi_low) * Den(bp) - Num(bp, c)) <= Den(bp)

\* the interpolated value lies exactly halfway between two integers
IsTie(bp, c) == (2 * Num(bp, c)) % Den(bp) = 0 /\ Num(bp, c) % Den(bp) # 0

\* P(conc, idx, category, color) for every reading's PM2.5 and CO results
\* against the pollutant's table
ForResults(P(_, _, _, _, _)) ==
    HasCol("aqi_co") =>
        \A r \in Rows :
            /\ P(breakpoints_pm25, df.pm25[r], df.aqi_pm25[r],
                 df.category_pm25[r], df.color_pm25[r])
            /\ P(breakpoints_co, df.co[r], df.aqi_co[r],
                 df.category_co[r], df.color_co[r])

\* C1 as stated: inside a segment the index is the interpolated value
\* rounded to the nearest integer with halves rounded up.
C1_HalfUpAt(breakpoints, conc, idx, cat, col) ==
    (conc # NaN /\ SegmentOf(breakpoints, conc[1]) # 0) =>
        idx = << HalfUp(breakpoints[SegmentOf(breakpoints, conc[1])], conc[1]) >>

C1_HalfUp == ForResults(C1_HalfUpAt)

\* C1 amended: inside a segment the index is an integer nearest to the
\* interpolated value (at most 1/2 away from it); when the value is not
\* exactly halfway between two integers this is the half-up result, and at
\* an exact half it is one of the two neighbours, not always the larger.
C1_NearestAt(breakpoints, conc, idx, cat, col) ==
    (conc # NaN /\ SegmentOf(breakpoints, conc[1]) # 0) =>
        LET bp == breakpoints[SegmentOf(breakpoints, conc[1])]
        IN  /\ idx # None
            /\ Nearest(idx[1], bp, conc[1])
            /\ ~IsTie(bp, conc[1]) => idx[1] = HalfUp(bp, conc[1])

C1_Nearest == ForResults(C1_NearestAt)

\* PM2.5 0.12 interpolates to exactly 0.5 and gets index 0
C1_Witness ==
    /\ pc = "done"
    /\ df.pm25[1] = << 12 >>
    /\ IsTie(breakpoints_pm25[1], 12)
    /\ df.aqi_pm25[1] = << 0 >>

\* C2: a concentration equal to the lower (upper) limit of a table entry gets
\* exactly the entry's lower (upper) index with the entry's category and
\* colour, for PM2.5 and for CO.
C2_BoundariesAt(breakpoints, conc, idx, cat, col) ==
    \A k \in 1..Len(breakpoints) :
        LET bp == breakpoints[k]
        IN  /\ conc = << bp.bp_low >> =>
                idx = << bp.aqi_low >> /\ cat = bp.category /\ col = bp.color
            /\ conc = << bp.bp_high >> =>
                idx = << bp.aqi_high >> /\ cat = bp.category /\ col = bp.color

C2_Boundaries == ForResults(C2_BoundariesAt)

\* PM2.5 12.1, the lower limit of the second entry, gets index 51
C2_Witness ==
    /\ pc = "done"
    /\ df.pm25[1] = << breakpoints_pm25[2].bp_low >>
    /\ df.aqi_pm25[1] = << 51 >>
    /\ df.category_pm25[1] = "Moderado"

\* the largest concentration of a table
TopOf(breakpoints) == breakpoints[Len(breakpoints)].bp_high

\* C3 as stated: every PM2.5 concentration from 0 to 500.4 has a defined
\* index, the values between two consecutive entries (12.05) included.
C3_NoGaps ==
    HasCol("aqi_pm25") =>
        \A r \in Rows :
            (/\ df.pm25[r] # NaN
             /\ 0 <= df.pm25[r][1]
             /\ df.pm25[r][1] <= TopOf(breakpoints_pm25)) => df.aqi_pm25[r] # None

\* C4: the index does not decrease with the concentration: of two readings
\* with defined indices, the one with the larger concentration has an index
\* at least as large, within a segment and across segments.
C4_MonotoneAt(conc, idx) ==
    \A r \in Rows, s \in Rows :
        (/\ conc[r] # NaN /\ conc[s] # NaN
         /\ idx[r] # None /\ idx[s] # None
         /\ conc[r][1] <= conc[s][1]) => idx[r][1] <= idx[s][1]

C4_Monotone ==
    HasCol("aqi_co") =>
        /\ C4_MonotoneAt(df.pm25, df.aqi_pm25)
        /\ C4_MonotoneAt(df.co, df.aqi_co)

\* PM2.5 12.0, the end of the first entry, and 12.1, the start of the second
C4_Witness ==
    /\ pc = "done"
    /\ df.pm25[1] = << breakpoints_pm25[1].bp_high >>
    /\ df.pm25[2] = << breakpoints_pm25[2].bp_low >>
    /\ df.aqi_pm25[1] = << 50 >>
    /\ df.aqi_pm25[2] = << 51 >>

\* C5: a concentration below 0 or above the largest concentration of the
\* table gives (undefined, "Fuera de rango", "#000000"), and the run does
\* not fail on it.
C5_OutsideAt(breakpoints, conc, idx, cat, col) ==
    (conc # NaN /\ (conc[1] < 0 \/ conc[1] > TopOf(breakpoints))) =>
        idx = None /\ cat = "Fuera de rango" /\ col = "#000000"

C5_Outside ==
    /\ ForResults(C5_OutsideAt)
    /\ pc = "error" => Rows = {}

\* PM2.5 -1 with its result
C5_Witness ==
    /\ pc = "done"
    /\ df.pm25[1] = << 0 - Hundred >>
    /\ df.aqi_pm25[1] = None
    /\ df.category_pm25[1] = "Fuera de rango"
    /\ df.color_pm25[1] = "#000000"

\* C6: the overall index is the maximum of the defined pollutant indices; it
\* is undefined exactly when both are undefined.
C6_OverallMax ==
    HasCol("aqi") =>
        \A r \in Rows :
            LET a == df.aqi_pm25[r]
                b == df.aqi_co[r]
                o == df.aqi[r]
            IN  /\ (a # None /\ b # None) => o = << Max(a[1], b[1]) >>
                /\ (a # None /\ b = None) => o = a
                /\ (a = None /\ b # None) => o = b
                /\ o = NaN <=> (a = None /\ b = None)

\* PM2.5 above its table with a CO in range: the overall index is CO's
C6_Witness ==
    /\ pc = "done"
    /\ df.pm25[1] = << 60000 >>
    /\ df.aqi_pm25[1] = None
    /\ df.aqi_co[1] # None
    /\ df.aqi[1] = df.aqi_co[1]

\* the bands of the general classification
Bands ==
    << [low |->   0, high |->  50, category |-> "Bueno", color |-> "#00E400"],
       [low |->  51, high |-> 100, category |-> "Moderado", color |-> "#FFFF00"],
       [low |-> 101, high |-> 150, category |-> "Insalubre para Grupos Sensibles",
        color |-> "#FF7E00"],
       [low |-> 151, high |-> 200, category |-> "Insalubre", color |-> "#FF0000"],
       [low |-> 201, high |-> 300, category |-> "Muy Insalubre", color |-> "#99004C"],
       [low |-> 301, high |-> 500, category |-> "Peligroso", color |-> "#7E0023"] >>

\* cat and col are those of the band holding the index idx
InBand(idx, cat, col) ==
    \E k \in 1..Len(Bands) :
        /\ Bands[k].low <= idx /\ idx <= Bands[k].high
        /\ cat = Bands[k].category /\ col = Bands[k].color

\* C7: the overall category and colour are those of the band of the overall
\* index; an undefined overall index gives "Fuera de rango" and "#000000".
C7_OverallCategory ==
    HasCol("category") =>
        \A r \in Rows :
            IF df.aqi[r] = NaN
            THEN df.category[r] = "Fuera de rango" /\ df.color[r] = "#000000"
            ELSE InBand(df.aqi[r][1], df.category[r], df.color[r])

\* overall index 50, the last of the first band
C7_Witness ==
    /\ pc = "done"
    /\ df.aqi[1] = << 50 >>
    /\ df.category[1] = "Bueno"
    /\ df.color[1] = "#00E400"

\* the pollutants for which reading r has a result
PerPollutant(r) ==
    {p \in {"pm25", "co"} :
        /\ HasCol("category_" \o p)
        /\ r \in DOMAIN df["category_" \o p]}

Severity(cat) == CHOOSE k \in 1..Len(categories) : categories[k] = cat

\* C9: a defined pollutant index lies in 0..500 and comes with the category
\* and colour of the band of that index; hence, when both pollutant indices
\* are defined, the overall category is the more severe of the two
\* pollutant categories.
C9_BandAt(breakpoints, conc, idx, cat, col) ==
    idx # None => (0 <= idx[1] /\ idx[1] <= 500 /\ InBand(idx[1], cat, col))

C9_Bands ==
    /\ ForResults(C9_BandAt)
    /\ HasCol("category") =>
           \A r \in Rows :
               (df.aqi_pm25[r] # None /\ df.aqi_co[r] # None) =>
                   df.category[r] =
                       categories[Max(Severity(df.category_pm25[r]),
                                      Severity(df.category_co[r]))]

\* PM2.5 200.0 is "Muy Insalubre", CO 5.0 is "Moderado"
C9_Witness ==
    /\ pc = "done"
    /\ df.pm25[1] = << 20000 >>
    /\ df.co[1] = << 500 >>
    /\ df.category_pm25[1] = "Muy Insalubre"
    /\ df.category_co[1] = "Moderado"
    /\ df.category[1] = "Muy Insalubre"

\* np.select over the thresholds applied to an average << sum, count >>
SelectAvg(avg, choices, default) ==
    LET hold == {i \in 1..Len(thresholds) :
                    avg # NaN /\ avg[1] <= thresholds[i] * avg[2]}
    IN  IF hold = {} THEN default
        ELSE choices[CHOOSE i \in hold : \A j \in hold : i <= j]

\* the cell style that shows a colour
StyleOf(col) ==
    CASE col = "#00E400" -> "background-color: #00E400"
      [] col = "#FFFF00" -> "background-color: #FFFF00"
      [] col = "#FF7E00" -> "background-color: #FF7E00"
      [] col = "#FF0000" -> "background-color: #FF0000"
      [] col = "#99004C" -> "background-color: #99004C"
      [] col = "#7E0023" -> "background-color: #7E0023"
      [] OTHER -> "background-color: #000000"

\* C10 as stated: the KPI classification of the average index and the cell
\* colouring agree with the classification of the readings: the same
\* category and colour for every value, and an undefined value is shown as
\* out of range.
C10_Agree ==
    pc = "done" =>
        /\ aqi_category = SelectAvg(avg_aqi, categories, "Fuera de rango")
        /\ aqi_color = SelectAvg(avg_aqi, colors, "#000000")
        /\ \A k \in DOMAIN styled_recent :
               styled_recent[k].style = StyleOf(df.color[styled_recent[k].row])

====
